---- MODULE Spec2Model ----
(***************************************************************************)
(* nginx-jwt-auth: the /validate handler of src/main.go as a state         *)
(* machine.  A request is handled in the steps of server.validate and      *)
(* server.validateDeviceToken; the range loop of queryStringClaimValidator *)
(* visits the query keys in an arbitrary order (Go map iteration), and     *)
(* every call of regexpcache.MatchString is a step of its own.             *)
(*                                                                         *)
(* net/http serves every request on a goroutine of its own.  The variables *)
(* follow one handling at a time through all its steps.  The handlings in  *)
(* flight beside it share one thing with it that changes, the cache of     *)
(* compiled patterns, and they appear as what they do to it: the action    *)
(* OtherMatchString, enabled at every moment of the handling followed.     *)
(*                                                                         *)
(* Strings are sequences of one-character strings.  The compact            *)
(* serialization of a signed token is one opaque element ("tokA") of such  *)
(* a sequence; TokenTable gives what it decodes to.                        *)
(***************************************************************************)
EXTENDS Integers, Sequences, FiniteSets, TLC

VARIABLES
    pc,             \* position of the handler: "idle", "defer", "extract", "parse", "policy", "range", "match", "return", "panic", "done"
    req,            \* the request being handled (r)
    now,            \* time.Now(), measured from the arrival of the request being handled
    t,              \* validateDeviceToken: t := time.Now()
    deferredObs,    \* the argument of the deferred validationTime.Observe call, -1 while none is deferred
    jwtB64,         \* validateDeviceToken: the extracted credential
    claims,         \* token.Claims of the parsed token
    ok,             \* validateDeviceToken: the result ok
    todo,           \* queryStringClaimValidator: the query keys the range loop has not visited yet
    status,         \* statusWriter.status, 0 before WriteHeader
    respHeaders,    \* w.Header(): canonical header name -> sequence of values
    cache,          \* the regexpcache: pattern string -> compiled pattern
    counted,        \* the label of requestsTotal this request incremented, 0 before
    observed,       \* the duration this request observed into validationTime, -1 before
    elapsed,        \* history: the time from the entry of validateDeviceToken to its return, -1 before
    prev,           \* history: the status the same request got when it was handled before, -1 if it is new
    keySource,      \* newServer: "file" when the key is read from JWKS_PATH, "url" when fetched from JWKS_URL
    match           \* checkClaim: the key whose claim is being matched, actualClaims, and the positions i, j of the two loops

vars == << pc, req, now, t, deferredObs, jwtB64, claims, ok, todo, status,
           respHeaders, cache, counted, observed, elapsed, prev, keySource,
           match >>

----
\* Bounds of the model.

\* the clock stops advancing at this reading
MaxClock == 1

----
\* Strings.

\* the printable characters, bytes 32..126 (byte 96 is named, not written)
Ascii ==
   <<
      " ", "!", "\"", "#", "$", "%", "&", "'", "(", ")", "*", "+", ",", "-", ".", "/",
      "0", "1", "2", "3", "4", "5", "6", "7", "8", "9", ":", ";", "<", "=", ">", "?",
      "@", "A", "B", "C", "D", "E", "F", "G", "H", "I", "J", "K", "L", "M", "N", "O",
      "P", "Q", "R", "S", "T", "U", "V", "W", "X", "Y", "Z", "[", "\\", "]", "^", "_",
      "grave", "a", "b", "c", "d", "e", "f", "g", "h", "i", "j", "k", "l", "m", "n", "o",
      "p", "q", "r", "s", "t", "u", "v", "w", "x", "y", "z", "{", "|", "}", "~" >>

\* the byte of a printable character; an opaque token element has none (-1)
Ord(c) ==
    IF \E i \in 1..Len(Ascii) : Ascii[i] = c
    THEN 31 + (CHOOSE i \in 1..Len(Ascii) : Ascii[i] = c)
    ELSE -1

Chr(b) == Ascii[b - 31]

IsLower(c) == Ord(c) >= Ord("a") /\ Ord(c) <= Ord("z")
IsUpper(c) == Ord(c) >= Ord("A") /\ Ord(c) <= Ord("Z")
ToUpperChar(c) == IF IsLower(c) THEN Chr(Ord(c) - 32) ELSE c
ToLowerChar(c) == IF IsUpper(c) THEN Chr(Ord(c) + 32) ELSE c

\* strings.ToUpper
ToUpper(s) == [i \in 1..Len(s) |-> ToUpperChar(s[i])]

\* strings.HasPrefix
HasPrefix(s, prefix) ==
    Len(s) >= Len(prefix) /\ SubSeq(s, 1, Len(prefix)) = prefix

\* strings.TrimPrefix
TrimPrefix(s, prefix) ==
    IF HasPrefix(s, prefix) THEN SubSeq(s, Len(prefix) + 1, Len(s)) ELSE s

claimsPrefix == << "c", "l", "a", "i", "m", "s", "_" >>
regexpPrefix == << "r", "e", "g", "e", "x", "p", "_" >>
headersPrefix == << "h", "e", "a", "d", "e", "r", "s", "_" >>
cookieParam == << "c", "o", "o", "k", "i", "e" >>
bearerPrefix == << "B", "E", "A", "R", "E", "R", " " >>

----
\* Regular expressions: regexp.Compile and (*Regexp).MatchString of the Go
\* standard library, for patterns over literal characters, ".", "^", "$", "*"
\* and "(".  A compiled pattern is a sequence of atoms.

Atom(kind, c, star) == [kind |-> kind, c |-> c, star |-> star]

\* the atom of one pattern character
atomOf(c) ==
    CASE c = "." -> Atom("any", "", FALSE)
      [] c = "^" -> Atom("bol", "", FALSE)
      [] c = "$" -> Atom("eol", "", FALSE)
      [] OTHER   -> Atom("char", c, FALSE)

RECURSIVE parseRegexp(_, _)
\* the atoms of pattern p, given the atoms parsed so far; "error" for a pattern
\* that does not compile: "(" without ")", "*" with nothing to repeat, "**"
parseRegexp(p, acc) ==
    IF p = <<>> THEN [err |-> FALSE, re |-> acc]
    ELSE IF Head(p) = "(" THEN [err |-> TRUE, re |-> <<>>]
    ELSE IF Head(p) = "*" THEN
        IF acc = <<>> \/ acc[Len(acc)].star
        THEN [err |-> TRUE, re |-> <<>>]
        ELSE parseRegexp(Tail(p),
                 [acc EXCEPT ![Len(acc)] = Atom(@.kind, @.c, TRUE)])
    ELSE parseRegexp(Tail(p), Append(acc, atomOf(Head(p))))

\* regexp.Compile
regexpCompile(p) == parseRegexp(p, <<>>)

\* atom a matches at offset pos of text (zero-width for "bol" and "eol")
atomMatches(a, text, pos) ==
    CASE a.kind = "char" -> pos < Len(text) /\ text[pos + 1] = a.c
      [] a.kind = "any"  -> pos < Len(text)
      [] a.kind = "bol"  -> pos = 0
      [] a.kind = "eol"  -> pos = Len(text)

atomWidth(a) == IF a.kind \in {"char", "any"} THEN 1 ELSE 0

RECURSIVE matchHere(_, _, _, _)
\* the atoms re[i..] match text from offset pos on
matchHere(re, i, text, pos) ==
    IF i > Len(re) THEN TRUE
    ELSE IF re[i].star THEN
        \/ matchHere(re, i + 1, text, pos)
        \/ /\ atomWidth(re[i]) = 1
           /\ atomMatches(re[i], text, pos)
           /\ matchHere(re, i, text, pos + 1)
    ELSE /\ atomMatches(re[i], text, pos)
         /\ matchHere(re, i + 1, text, pos + atomWidth(re[i]))

\* (*Regexp).MatchString: the pattern matches somewhere in text
MatchString(re, text) == \E pos \in 0..Len(text) : matchHere(re, 1, text, pos)

\* regexpcache.MatchString: the compiled pattern is taken from the cache, or
\* compiled and stored; a pattern that does not compile matches nothing
regexpcacheMatchString(pattern, text, c) ==
    IF pattern \in DOMAIN c
    THEN [matched |-> MatchString(c[pattern], text), cache |-> c]
    ELSE LET r == regexpCompile(pattern) IN
         IF r.err
         THEN [matched |-> FALSE, cache |-> c]
         ELSE [matched |-> MatchString(r.re, text),
               cache |-> c @@ (pattern :> r.re)]

----
\* Encodings.

encodeStd ==
   <<
      "A", "B", "C", "D", "E", "F", "G", "H", "I", "J", "K", "L", "M", "N", "O", "P",
      "Q", "R", "S", "T", "U", "V", "W", "X", "Y", "Z", "a", "b", "c", "d", "e", "f",
      "g", "h", "i", "j", "k", "l", "m", "n", "o", "p", "q", "r", "s", "t", "u", "v",
      "w", "x", "y", "z", "0", "1", "2", "3", "4", "5", "6", "7", "8", "9", "+", "/" >>

RECURSIVE Base64(_)
\* base64.StdEncoding.EncodeToString of the bytes of s
Base64(s) ==
    IF s = <<>> THEN <<>>
    ELSE LET b1 == Ord(s[1])
             b2 == IF Len(s) >= 2 THEN Ord(s[2]) ELSE 0
             b3 == IF Len(s) >= 3 THEN Ord(s[3]) ELSE 0
             n  == b1 * 65536 + b2 * 256 + b3
             e1 == encodeStd[(n \div 262144) + 1]
             e2 == encodeStd[((n \div 4096) % 64) + 1]
             e3 == IF Len(s) >= 2 THEN encodeStd[((n \div 64) % 64) + 1] ELSE "="
             e4 == IF Len(s) >= 3 THEN encodeStd[(n % 64) + 1] ELSE "="
         IN  << e1, e2, e3, e4 >>
             \o (IF Len(s) > 3 THEN Base64(SubSeq(s, 4, Len(s))) ELSE <<>>)

RECURSIVE jsonString(_)
\* the body of a JSON string literal as json.Marshal writes it
jsonString(s) ==
    IF s = <<>> THEN <<>>
    ELSE LET c == Head(s)
             e == CASE c = "\"" -> << "\\", "\"" >>
                    [] c = "\\" -> << "\\", "\\" >>
                    [] c = "<"  -> << "\\", "u", "0", "0", "3", "c" >>
                    [] c = ">"  -> << "\\", "u", "0", "0", "3", "e" >>
                    [] c = "&"  -> << "\\", "u", "0", "0", "2", "6" >>
                    [] OTHER    -> << c >>
         IN  e \o jsonString(Tail(s))

RECURSIVE itoa(_)
\* the decimal digits of a natural number
itoa(n) ==
    IF n < 10 THEN << Chr(Ord("0") + n) >>
    ELSE Append(itoa(n \div 10), Chr(Ord("0") + (n % 10)))

RECURSIVE jsonMarshal(_)
RECURSIVE jsonElems(_)
\* json.Marshal of the elements of an array, comma-separated
jsonElems(es) ==
    IF es = <<>> THEN <<>>
    ELSE jsonMarshal(Head(es))
         \o (IF Len(es) > 1 THEN << "," >> \o jsonElems(Tail(es)) ELSE <<>>)

\* json.Marshal of a claim value
jsonMarshal(v) ==
    CASE v.tag = "string" -> << "\"" >> \o jsonString(v.s) \o << "\"" >>
      [] v.tag = "array"  -> << "[" >> \o jsonElems(v.elems) \o << "]" >>
      [] v.tag = "number" -> itoa(v.n)
      [] v.tag = "object" -> << "{", "}" >>

\* textproto.CanonicalMIMEHeaderKey, for names of letters, digits and "-"
CanonicalMIMEHeaderKey(s) ==
    [i \in 1..Len(s) |->
        IF i = 1 \/ s[i - 1] = "-" THEN ToUpperChar(s[i]) ELSE ToLowerChar(s[i])]

----
\* Claim values, tokens and requests.

\* a JSON value of a claim set, as encoding/json decodes it into interface{}
Str(s) == [tag |-> "string", s |-> s]
Arr(es) == [tag |-> "array", elems |-> es]
Num(n) == [tag |-> "number", n |-> n]
Obj == [tag |-> "object"]

grp == << "g" >>
loc == << "l" >>
hx == << "x" >>
hy == << "y" >>
ck == << "c" >>
dev == << "d", "e", "v" >>
ops == << "o", "p", "s" >>
adm == << "a", "d", "m" >>
hq == << "h", "q" >>

\* the key the server verifies with: the EC public key of JWKS_PATH, or the
\* one key of the JWKS at JWKS_URL
ecPubKey == "k1"
jwks == ("k1" :> "k1")

groups == (grp :> Arr(<< Str(dev), Str(ops) >>)) @@ (loc :> Str(hq))

\* what each compact serialization decodes to: the key id of its header, the
\* key that signed it, whether its exp is in the past, and its claim set
TokenTable ==
    ("tokA" :> [kid |-> "k1", signer |-> "k1", expired |-> FALSE, claims |-> groups])
 @@ ("tokB" :> [kid |-> "k1", signer |-> "k1", expired |-> FALSE,
                claims |-> (grp :> Str(dev))])
 @@ ("tokC" :> [kid |-> "k1", signer |-> "k1", expired |-> FALSE,
                claims |-> (grp :> Arr(<<>>)) @@ (loc :> Str(hq))])
 @@ ("tokD" :> [kid |-> "k1", signer |-> "k1", expired |-> FALSE,
                claims |-> (grp :> Arr(<< Num(7), Str(dev) >>)) @@ (loc :> Str(ops))])
 @@ ("tokE" :> [kid |-> "k1", signer |-> "k1", expired |-> FALSE,
                claims |-> (grp :> Num(7)) @@ (loc :> Str(hq))])
 @@ ("tokF" :> [kid |-> "k1", signer |-> "k1", expired |-> FALSE,
                claims |-> (grp :> Obj) @@ (loc :> Arr(<< Str(hq) >>))])
 @@ ("tokG" :> [kid |-> "k1", signer |-> "k1", expired |-> FALSE,
                claims |-> (grp :> Arr(<<>>)) @@ (loc :> Arr(<< Num(7) >>))])
 @@ ("tokU" :> [kid |-> "k2", signer |-> "k2", expired |-> FALSE, claims |-> groups])
 @@ ("tokV" :> [kid |-> "k1", signer |-> "k2", expired |-> FALSE, claims |-> groups])
 @@ ("tokX" :> [kid |-> "k1", signer |-> "k1", expired |-> TRUE, claims |-> groups])

GoodTokens == { "tokA", "tokB", "tokC", "tokD", "tokE", "tokF", "tokG" }
BadTokens == { "tokU", "tokV", "tokX" }

\* no value list: url.Values never holds an empty one
Absent == <<>>

\* a map with the keys of ks for which the choice f[k] is present
Pick(ks, f) == [k \in { k \in ks : f[k] # Absent } |-> f[k]]

claimsG == claimsPrefix \o grp
claimsL == claimsPrefix \o loc
claimsRegexpG == claimsPrefix \o regexpPrefix \o grp
headersX == headersPrefix \o hx
headersY == headersPrefix \o hy

\* the query strings of the requests that carry a verified token
PolicyQueries ==
    { Pick({ claimsG, claimsL, claimsRegexpG, headersX, headersY }, f) :
        f \in { f \in [ { claimsG, claimsL, claimsRegexpG, headersX, headersY } ->
                        { Absent, << dev >>, << adm, dev >>, << hq >>, << grp >>,
                          << loc, grp >>, << << "^", "o" >> >>,
                          << << "(" >>, << "x", "*" >> >>,
                          << << "^", "o" >>, << "x", "*" >> >> } ] :
                  /\ f[claimsG] \in { Absent, << dev >>, << adm, dev >> }
                  /\ f[claimsL] \in { Absent, << hq >> }
                  /\ f[claimsRegexpG] \in { Absent, << << "^", "o" >> >>,
                                            << << "(" >>, << "x", "*" >> >>,
                                            << << "^", "o" >>, << "x", "*" >> >> }
                  /\ f[headersX] \in { Absent, << grp >> }
                  /\ f[headersY] = (IF f[headersX] = Absent THEN Absent
                                    ELSE << loc, grp >>) } }

\* the query strings of the requests that vary the credential
ExtractionQueries ==
    { <<>>,
      (cookieParam :> << ck >>),
      (cookieParam :> << <<>> >>),
      (claimsG :> << dev >>),
      (claimsG :> << adm >>),
      (cookieParam :> << ck >>) @@ (claimsG :> << dev >>) }

Bearer(tok) == << "B", "e", "a", "r", "e", "r", " " >> \o tok

AuthHeaders ==
    { <<>>,
      << "t", "o", "k" >>,
      Bearer(<<>>),
      << "tokA" >>,
      << "b", "e", "a", "r", "e", "r", " ", "tokA" >>,
      << "B", "a", "s", "i", "c", " ", "tokA" >>,
      Bearer(<< "x", ".", "y", ".", "z" >>) }
    \cup { Bearer(<< id >>) : id \in { "tokA" } \cup BadTokens }

Request(method, query, authorization, cookies) ==
    [method |-> method, query |-> query, authorization |-> authorization,
     cookies |-> cookies]

PolicyRequests ==
    { Request("GET", q, Bearer(<< id >>), <<>>) :
        q \in PolicyQueries, id \in GoodTokens }

ExtractionRequests ==
    { Request(m, q, a, k) :
        m \in { "GET", "HEAD", "POST" }, q \in ExtractionQueries, a \in AuthHeaders,
        k \in { <<>>, (ck :> << "tokA" >>), (ck :> << "tokU" >>) } }

Requests == PolicyRequests \cup ExtractionRequests

NoRequest == Request("", <<>>, <<>>, <<>>)

----
\* The program.

StatusOK == 200
StatusUnauthorized == 401
StatusMethodNotAllowed == 405
StatusInternalServerError == 500

\* url.Values.Get: the first value of the key, "" without one
queryGet(query, key) == IF key \in DOMAIN query THEN query[key][1] ELSE <<>>

\* request.AuthorizationHeaderExtractor: the Authorization header, less a
\* leading "Bearer " in any case; an error for a missing or empty header
AuthorizationHeaderExtractor(r) ==
    LET tok == r.authorization IN
    IF tok = <<>> THEN [err |-> TRUE, token |-> <<>>]
    ELSE IF Len(tok) > 6 /\ ToUpper(SubSeq(tok, 1, 7)) = bearerPrefix
         THEN [err |-> FALSE, token |-> SubSeq(tok, 8, Len(tok))]
         ELSE [err |-> FALSE, token |-> tok]

\* extractToken that falls back to the Authorization header when the named
\* cookie is absent
extractToken_FallbackToHeader(r) ==
    LET cookieName == queryGet(r.query, cookieParam) IN
    IF cookieName # <<>> /\ cookieName \in DOMAIN r.cookies
    THEN [err |-> FALSE, token |-> r.cookies[cookieName]]
    ELSE AuthorizationHeaderExtractor(r)

\* validateDeviceToken, the extraction of the credential
extractToken(r) ==
    LET cookieName == queryGet(r.query, cookieParam) IN
    IF cookieName # <<>>
    THEN IF cookieName \in DOMAIN r.cookies
         THEN [err |-> FALSE, token |-> r.cookies[cookieName]]
         ELSE [err |-> TRUE, token |-> <<>>]
    ELSE AuthorizationHeaderExtractor(r)

\* server.Keyfunc, as newServer sets it for source "file" (JWKS_PATH) or "url"
Keyfunc(source, tok) ==
    IF source = "file" THEN [err |-> FALSE, key |-> ecPubKey]
    ELSE IF tok.kid \in DOMAIN jwks THEN [err |-> FALSE, key |-> jwks[tok.kid]]
    ELSE [err |-> TRUE, key |-> ""]

\* jwtParse without the check of the signature
jwtParse_SignatureUnchecked(credential, source) ==
    IF Len(credential) = 1 /\ credential[1] \in DOMAIN TokenTable
    THEN LET tok == TokenTable[credential[1]] IN
         [err |-> tok.expired, valid |-> ~tok.expired, claimsValid |-> ~tok.expired,
          claims |-> tok.claims]
    ELSE [err |-> TRUE, valid |-> FALSE, claimsValid |-> FALSE, claims |-> <<>>]

\* jwt.Parse: the credential must be the compact serialization of a token,
\* the key function must give a key, the signature must verify under it and
\* the registered claims must be valid
jwtParse(credential, source) ==
    IF Len(credential) = 1 /\ credential[1] \in DOMAIN TokenTable
    THEN LET tok == TokenTable[credential[1]]
             k == Keyfunc(source, tok)
             good == ~k.err /\ tok.signer = k.key /\ ~tok.expired
         IN  [err |-> ~good, valid |-> good, claimsValid |-> ~tok.expired,
              claims |-> tok.claims]
    ELSE [err |-> TRUE, valid |-> FALSE, claimsValid |-> FALSE, claims |-> <<>>]

RECURSIVE contains(_, _, _, _)
\* contains: the needle equals or, with isRegExp, matches a pattern of the
\* haystack; the result carries the cache as the lookups leave it
contains(haystack, needle, isRegExp, cch) ==
    IF haystack = <<>> THEN [matched |-> FALSE, cache |-> cch]
    ELSE IF isRegExp
    THEN LET m == regexpcacheMatchString(Head(haystack), needle, cch) IN
         IF m.matched THEN m
         ELSE contains(Tail(haystack), needle, isRegExp, m.cache)
    ELSE IF Head(haystack) = needle THEN [matched |-> TRUE, cache |-> cch]
    ELSE contains(Tail(haystack), needle, isRegExp, cch)

\* checkClaim whose short exit for an empty array goes on to the loops with
\* one empty claim
checkClaim_EmptyArrayPasses(claimName, validPatterns, cl) ==
    IF claimName \notin DOMAIN cl THEN [res |-> "false", actualClaims |-> <<>>]
    ELSE LET claimVal == cl[claimName] IN
    CASE claimVal.tag = "string" ->
            IF validPatterns = <<>> THEN [res |-> "false", actualClaims |-> <<>>]
            ELSE [res |-> "loop", actualClaims |-> << claimVal.s >>]
      [] claimVal.tag = "array" ->
            IF Len(claimVal.elems) = 0 /\ Len(validPatterns) > 0
            THEN [res |-> "loop", actualClaims |-> << <<>> >>]
            ELSE IF \E i \in 1..Len(claimVal.elems) : claimVal.elems[i].tag # "string"
            THEN [res |-> "panic", actualClaims |-> <<>>]
            ELSE IF claimVal.elems = <<>> \/ validPatterns = <<>>
            THEN [res |-> "false", actualClaims |-> <<>>]
            ELSE [res |-> "loop",
                  actualClaims |-> [i \in 1..Len(claimVal.elems) |-> claimVal.elems[i].s]]
      [] OTHER -> [res |-> "false", actualClaims |-> <<>>]

\* checkClaim up to its first call of contains: "false" where it returns false
\* without one (the claim is absent, an empty array, or neither a string nor
\* an array), "panic" when the type assertion e.(string) meets an element that
\* is no string, and otherwise "loop" with the strings the calls of contains
\* will be made for, the claim itself or actualClaims
checkClaim(claimName, validPatterns, cl) ==
    IF claimName \notin DOMAIN cl THEN [res |-> "false", actualClaims |-> <<>>]
    ELSE LET claimVal == cl[claimName] IN
    CASE claimVal.tag = "string" ->
            IF validPatterns = <<>> THEN [res |-> "false", actualClaims |-> <<>>]
            ELSE [res |-> "loop", actualClaims |-> << claimVal.s >>]
      [] claimVal.tag = "array" ->
            IF Len(claimVal.elems) = 0 /\ Len(validPatterns) > 0
            THEN [res |-> "false", actualClaims |-> <<>>]
            ELSE IF \E i \in 1..Len(claimVal.elems) : claimVal.elems[i].tag # "string"
            THEN [res |-> "panic", actualClaims |-> <<>>]
            ELSE IF claimVal.elems = <<>> \/ validPatterns = <<>>
            THEN [res |-> "false", actualClaims |-> <<>>]
            ELSE [res |-> "loop",
                  actualClaims |-> [i \in 1..Len(claimVal.elems) |-> claimVal.elems[i].s]]
      [] OTHER -> [res |-> "false", actualClaims |-> <<>>]

\* queryStringClaimValidator: isRegExp for the query key claimNameQ
isRegExpOf(claimNameQ) ==
    /\ HasPrefix(claimNameQ, claimsPrefix)
    /\ HasPrefix(TrimPrefix(claimNameQ, claimsPrefix), regexpPrefix)

\* queryStringClaimValidator: claimName for the query key claimNameQ
claimNameOf(claimNameQ) ==
    IF isRegExpOf(claimNameQ)
    THEN TrimPrefix(TrimPrefix(claimNameQ, claimsPrefix), regexpPrefix)
    ELSE TrimPrefix(claimNameQ, claimsPrefix)

\* checkClaim is not running
NoMatch == [key |-> <<>>, actualClaims |-> <<>>, i |-> 0, j |-> 0]

\* the patterns some request asks to have matched as regular expressions
RegexpPatterns ==
    UNION { UNION { { q[k][i] : i \in DOMAIN q[k] } :
                    k \in { kk \in DOMAIN q : isRegExpOf(kk) } } :
            q \in { r.query : r \in Requests } }

\* queryStringClaimValidator, the first loop
hasClaimsPrefixedKey(query) ==
    \E key \in DOMAIN query : HasPrefix(key, claimsPrefix)

\* the orders a range over the keys of a map may take
Orders(keys) ==
    { f \in [1..Cardinality(keys) -> keys] : \A k \in keys : \E i \in DOMAIN f : f[i] = k }

\* writeResponseHeaders, the first loop: header name -> claim name
responseHeadersOf(query) ==
    [header \in { TrimPrefix(key, headersPrefix) :
                    key \in { k \in DOMAIN query : HasPrefix(k, headersPrefix) } }
        |-> query[headersPrefix \o header][1]]

\* http.Header.Add
headerAdd(h, key, value) ==
    LET k == CanonicalMIMEHeaderKey(key) IN
    IF k \in DOMAIN h THEN [h EXCEPT ![k] = Append(@, value)]
    ELSE h @@ (k :> << value >>)

\* writeResponseHeaders, the value written for a claim
encClaim(claim) ==
    IF claim.tag = "string" THEN claim.s ELSE jsonMarshal(claim)

RECURSIVE addHeaders(_, _, _, _)
\* writeResponseHeaders, the second loop over the headers in the given order
addHeaders(h, order, responseHeaders, cl) ==
    IF order = <<>> THEN h
    ELSE LET header == Head(order)
             claimName == responseHeaders[header]
         IN  addHeaders(IF claimName \in DOMAIN cl
                        THEN headerAdd(h, header, encClaim(cl[claimName]))
                        ELSE h,
                        Tail(order), responseHeaders, cl)

----
\* The handler, step by step.

Init ==
    /\ pc = "idle"
    /\ req = NoRequest
    /\ now = 0
    /\ t = 0
    /\ deferredObs = -1
    /\ jwtB64 = <<>>
    /\ claims = <<>>
    /\ ok = FALSE
    /\ todo = {}
    /\ status = 0
    /\ respHeaders = <<>>
    /\ cache = <<>>
    /\ counted = 0
    /\ observed = -1
    /\ elapsed = -1
    /\ prev = -1
    /\ keySource \in { "file", "url" }
    /\ match = NoMatch

\* handle without the check of the method
handle_MethodUnchecked(r, before) ==
    /\ req' = r
    /\ prev' = before
    /\ now' = 0
    /\ t' = now'
    /\ deferredObs' = -1
    /\ jwtB64' = <<>>
    /\ claims' = <<>>
    /\ ok' = FALSE
    /\ todo' = {}
    /\ respHeaders' = <<>>
    /\ observed' = -1
    /\ elapsed' = -1
    /\ counted' = 0
    /\ status' = 0
    /\ pc' = "defer"
    /\ match' = NoMatch
    /\ UNCHANGED << cache, keySource >>

\* server.validate up to the call of validateDeviceToken, and its first
\* statement t := time.Now(): a method other than GET and HEAD is answered 405
handle(r, before) ==
    /\ req' = r
    /\ prev' = before
    /\ now' = 0
    /\ deferredObs' = -1
    /\ jwtB64' = <<>>
    /\ claims' = <<>>
    /\ ok' = FALSE
    /\ todo' = {}
    /\ respHeaders' = <<>>
    /\ observed' = -1
    /\ elapsed' = -1
    /\ IF r.method # "GET" /\ r.method # "HEAD"
       THEN /\ counted' = StatusMethodNotAllowed
            /\ status' = StatusMethodNotAllowed
            /\ t' = 0
            /\ pc' = "done"
       ELSE /\ counted' = 0
            /\ status' = 0
            /\ t' = now'
            /\ pc' = "defer"
    /\ match' = NoMatch
    /\ UNCHANGED << cache, keySource >>

\* the request whose handling is followed arrives; the requests handled at
\* the same time are those of OtherMatchString
Validate ==
    /\ pc = "idle"
    /\ \E r \in Requests : handle(r, -1)

\* server.validate has returned: nothing of the request remains but what it
\* left in the cache
Finish ==
    /\ pc = "done"
    /\ pc' = "idle"
    /\ req' = NoRequest
    /\ now' = 0
    /\ t' = 0
    /\ deferredObs' = -1
    /\ jwtB64' = <<>>
    /\ claims' = <<>>
    /\ ok' = FALSE
    /\ todo' = {}
    /\ status' = 0
    /\ respHeaders' = <<>>
    /\ counted' = 0
    /\ observed' = -1
    /\ elapsed' = -1
    /\ prev' = -1
    /\ match' = NoMatch
    /\ UNCHANGED << cache, keySource >>

\* the request just answered arrives again
Replay ==
    /\ pc = "done"
    /\ handle(req, status)

\* time passes while the request is handled
Tick ==
    /\ pc \notin { "idle", "done" }
    /\ now < MaxClock
    /\ now' = now + 1
    /\ UNCHANGED << pc, req, t, deferredObs, jwtB64, claims, ok, todo, status,
                    respHeaders, cache, counted, observed, elapsed, prev, keySource, match >>

\* defer validationTime.Observe(time.Since(t).Seconds()): the argument is
\* evaluated when the defer statement executes
Defer ==
    /\ pc = "defer"
    /\ deferredObs' = now - t
    /\ pc' = "extract"
    /\ UNCHANGED << req, now, t, jwtB64, claims, ok, todo, status, respHeaders,
                    cache, counted, observed, elapsed, prev, keySource, match >>

\* validateDeviceToken: the credential, from the named cookie or the header
Extract ==
    /\ pc = "extract"
    /\ LET e == extractToken(req) IN
       IF e.err
       THEN /\ ok' = FALSE
            /\ pc' = "return"
            /\ UNCHANGED jwtB64
       ELSE /\ jwtB64' = e.token
            /\ pc' = "parse"
            /\ UNCHANGED ok
    /\ UNCHANGED << req, now, t, deferredObs, claims, todo, status, respHeaders,
                    cache, counted, observed, elapsed, prev, keySource, match >>

\* validateDeviceToken: jwt.Parse, token.Valid and token.Claims.Valid()
Parse ==
    /\ pc = "parse"
    /\ LET token == jwtParse(jwtB64, keySource) IN
       IF token.err \/ ~token.valid \/ ~token.claimsValid
       THEN /\ ok' = FALSE
            /\ pc' = "return"
            /\ UNCHANGED claims
       ELSE /\ claims' = token.claims
            /\ pc' = "policy"
            /\ UNCHANGED ok
    /\ UNCHANGED << req, now, t, deferredObs, jwtB64, todo, status, respHeaders,
                    cache, counted, observed, elapsed, prev, keySource, match >>

\* PolicyStart that rejects a query without a claims_ key
PolicyStart_DenyWithoutClaims ==
    /\ pc = "policy"
    /\ IF Cardinality(DOMAIN req.query) = 0 \/ ~hasClaimsPrefixedKey(req.query)
       THEN /\ ok' = FALSE
            /\ pc' = "return"
            /\ UNCHANGED todo
       ELSE /\ todo' = DOMAIN req.query
            /\ pc' = "range"
            /\ UNCHANGED ok
    /\ UNCHANGED << req, now, t, deferredObs, jwtB64, claims, status, respHeaders,
                    cache, counted, observed, elapsed, prev, keySource, match >>

\* queryStringClaimValidator up to the range loop: without a claims_ key the
\* token is accepted
PolicyStart ==
    /\ pc = "policy"
    /\ IF Cardinality(DOMAIN req.query) = 0 \/ ~hasClaimsPrefixedKey(req.query)
       THEN /\ ok' = TRUE
            /\ pc' = "return"
            /\ UNCHANGED todo
       ELSE /\ todo' = DOMAIN req.query
            /\ pc' = "range"
            /\ UNCHANGED ok
    /\ UNCHANGED << req, now, t, deferredObs, jwtB64, claims, status, respHeaders,
                    cache, counted, observed, elapsed, prev, keySource, match >>

\* queryStringClaimValidator: the range loop visits one more key, in any
\* order.  A key without the claims_ prefix is passed over; for another,
\* checkClaim runs up to its loops: it returns false, panics, or goes on to
\* match.  After the last key the loop returns true.
RangeStep ==
    /\ pc = "range"
    /\ \E key \in todo :
         /\ todo' = todo \ { key }
         /\ IF ~HasPrefix(key, claimsPrefix)
            THEN /\ IF todo = { key }
                    THEN pc' = "return" /\ ok' = TRUE
                    ELSE UNCHANGED << pc, ok >>
                 /\ UNCHANGED match
            ELSE LET c == checkClaim(claimNameOf(key), req.query[key], claims) IN
                 CASE c.res = "panic" -> pc' = "panic" /\ UNCHANGED << ok, match >>
                   [] c.res = "false" ->
                        pc' = "return" /\ ok' = FALSE /\ UNCHANGED match
                   [] OTHER ->
                        /\ pc' = "match"
                        /\ match' = [key |-> key, actualClaims |-> c.actualClaims,
                                     i |-> 1, j |-> 1]
                        /\ UNCHANGED ok
    /\ UNCHANGED << req, now, t, deferredObs, jwtB64, claims, status, respHeaders,
                    cache, counted, observed, elapsed, prev, keySource >>

\* checkClaim, one turn of its loops: one call of contains for one pattern
\* and one string of the claim, which with isRegExp is one call of
\* regexpcache.MatchString.  A match ends checkClaim with true and the range
\* loop goes on; without one the inner loop, then the outer loop, advances, and
\* past the last pair checkClaim returns false.
MatchStep ==
    /\ pc = "match"
    /\ LET validPatterns == req.query[match.key]
           m == contains(<< validPatterns[match.j] >>, match.actualClaims[match.i],
                         isRegExpOf(match.key), cache)
       IN  /\ cache' = m.cache
           /\ IF m.matched
              THEN /\ match' = NoMatch
                   /\ IF todo = {}
                      THEN pc' = "return" /\ ok' = TRUE
                      ELSE pc' = "range" /\ UNCHANGED ok
              ELSE IF match.j < Len(validPatterns)
              THEN /\ match' = [match EXCEPT !.j = @ + 1]
                   /\ UNCHANGED << pc, ok >>
              ELSE IF match.i < Len(match.actualClaims)
              THEN /\ match' = [match EXCEPT !.i = @ + 1, !.j = 1]
                   /\ UNCHANGED << pc, ok >>
              ELSE /\ match' = NoMatch
                   /\ pc' = "return"
                   /\ ok' = FALSE
    /\ UNCHANGED << req, now, t, deferredObs, jwtB64, claims, todo, status,
                    respHeaders, counted, observed, elapsed, prev, keySource >>

\* another request is being handled at the same time, on a goroutine of its
\* own: of that handling the one state the two share is the cache, and what
\* it does there is a call of regexpcache.MatchString for a pattern of its
\* query, at any moment of the handling followed here
OtherMatchString ==
    /\ \E pattern \in RegexpPatterns :
         /\ regexpcacheMatchString(pattern, <<>>, cache).cache # cache
         /\ cache' = regexpcacheMatchString(pattern, <<>>, cache).cache
    /\ UNCHANGED << pc, req, now, t, deferredObs, jwtB64, claims, ok, todo, status,
                    respHeaders, counted, observed, elapsed, prev, keySource,
                    match >>

\* validateDeviceToken returns: the deferred Observe runs; server.validate
\* answers 401, or 200 after writeResponseHeaders
Return ==
    /\ pc = "return"
    /\ observed' = deferredObs
    /\ elapsed' = now - t
    /\ IF ~ok
       THEN /\ counted' = StatusUnauthorized
            /\ status' = StatusUnauthorized
            /\ claims' = <<>>
            /\ UNCHANGED respHeaders
       ELSE /\ counted' = StatusOK
            /\ \E order \in Orders(DOMAIN responseHeadersOf(req.query)) :
                 respHeaders' = addHeaders(respHeaders, order,
                                           responseHeadersOf(req.query), claims)
            /\ status' = StatusOK
            /\ UNCHANGED claims
    /\ pc' = "done"
    /\ UNCHANGED << req, now, t, deferredObs, jwtB64, ok, todo, cache, prev,
                    keySource, match >>

\* a panic unwinds: the deferred Observe runs, and the deferred function of
\* server.validate recovers and answers 500
Recover ==
    /\ pc = "panic"
    /\ observed' = deferredObs
    /\ elapsed' = now - t
    /\ counted' = StatusInternalServerError
    /\ status' = StatusInternalServerError
    /\ pc' = "done"
    /\ UNCHANGED << req, now, t, deferredObs, jwtB64, claims, ok, todo,
                    respHeaders, cache, prev, keySource, match >>

Next ==
    \/ Validate
    \/ Finish
    \/ Replay
    \/ Tick
    \/ Defer
    \/ Extract
    \/ Parse
    \/ PolicyStart
    \/ RangeStep
    \/ MatchStep
    \/ OtherMatchString
    \/ Return
    \/ Recover

Spec == Init /\ [][Next]_vars

TypeOK ==
    /\ pc \in { "idle", "defer", "extract", "parse", "policy", "range", "match",
                "return", "panic", "done" }
    /\ status \in { 0, StatusOK, StatusUnauthorized, StatusMethodNotAllowed,
                    StatusInternalServerError }
    /\ now \in 0..MaxClock

----
\* What the claims speak of, stated on the request and the token alone.

MethodAllowed == req.method \in { "GET", "HEAD" }

\* the credential is the serialization of a token whose signature verifies
\* under a key the server's key source holds and whose registered claims are
\* valid
Verifies(credential) ==
    /\ Len(credential) = 1
    /\ credential[1] \in DOMAIN TokenTable
    /\ LET tok == TokenTable[credential[1]] IN
       /\ tok.signer = (IF keySource = "file" THEN ecPubKey
                        ELSE IF tok.kid \in DOMAIN jwks THEN jwks[tok.kid]
                        ELSE "")
       /\ ~tok.expired

\* the claim set of the credential the handler extracted
TokenClaims == TokenTable[jwtB64[1]].claims

\* the query keys that state a requirement
ClaimKeys(query) == { key \in DOMAIN query : HasPrefix(key, claimsPrefix) }

IsRegexpKey(key) == HasPrefix(key, claimsPrefix \o regexpPrefix)

\* the claim name a claims_ key names
ClaimNameOf(key) ==
    IF IsRegexpKey(key) THEN TrimPrefix(key, claimsPrefix \o regexpPrefix)
    ELSE TrimPrefix(key, claimsPrefix)

\* the strings a claim offers: its value when a string, its elements when an
\* array of strings, none otherwise
StringsOf(cl, claimName) ==
    IF claimName \notin DOMAIN cl THEN {}
    ELSE LET v == cl[claimName] IN
         IF v.tag = "string" THEN { v.s }
         ELSE IF v.tag = "array" /\ \A i \in DOMAIN v.elems : v.elems[i].tag = "string"
         THEN { v.elems[i].s : i \in DOMAIN v.elems }
         ELSE {}

\* a literal is compared by equality, a regular expression tested by match
Matches(pattern, value, isRegExp) ==
    IF isRegExp
    THEN ~regexpCompile(pattern).err /\ MatchString(regexpCompile(pattern).re, value)
    ELSE pattern = value

\* every claims_ parameter has a value that matches a string of its claim
SatisfiesEveryParameter(cl, query) ==
    \A key \in ClaimKeys(query) :
        \E i \in DOMAIN query[key], v \in StringsOf(cl, ClaimNameOf(key)) :
            Matches(query[key][i], v, IsRegexpKey(key))

\* every claim name the parameters name has, among all the patterns given for
\* it, literal or regular expression, one that matches a string of the claim
SatisfiesEveryClaimName(cl, query) ==
    \A name \in { ClaimNameOf(key) : key \in ClaimKeys(query) } :
        \E key \in { k \in ClaimKeys(query) : ClaimNameOf(k) = name } :
            \E i \in DOMAIN query[key], v \in StringsOf(cl, name) :
                Matches(query[key][i], v, IsRegexpKey(key))

\* the policy names a claim whose array holds an element that is no string
NamesMixedArray(cl, query) ==
    \E key \in ClaimKeys(query) :
        /\ ClaimNameOf(key) \in DOMAIN cl
        /\ cl[ClaimNameOf(key)].tag = "array"
        /\ \E i \in DOMAIN cl[ClaimNameOf(key)].elems :
               cl[ClaimNameOf(key)].elems[i].tag # "string"

\* the policy names a claim that is absent or neither a string nor an array
\* of strings
NamesUnusableClaim(cl, query) ==
    \E key \in ClaimKeys(query) :
        \/ ClaimNameOf(key) \notin DOMAIN cl
        \/ cl[ClaimNameOf(key)].tag \notin { "string", "array" }
        \/ /\ cl[ClaimNameOf(key)].tag = "array"
           /\ \E i \in DOMAIN cl[ClaimNameOf(key)].elems :
                  cl[ClaimNameOf(key)].elems[i].tag # "string"

\* the policy names a claim whose value is the empty array
NamesEmptyArray(cl, query) ==
    \E key \in ClaimKeys(query) :
        /\ ClaimNameOf(key) \in DOMAIN cl
        /\ cl[ClaimNameOf(key)] = Arr(<<>>)

\* the name the cookie parameter gives, "" without one
CookieName == IF cookieParam \in DOMAIN req.query THEN req.query[cookieParam][1] ELSE <<>>

\* the Authorization value starts with "Bearer " in any letter case
HasBearerScheme(h) ==
    /\ Len(h) > 6
    /\ \A i \in 1..7 : ToUpperChar(h[i]) = bearerPrefix[i]

----
\* The claims.

\* C1: a request is answered 200 only if its method is GET or HEAD, a
\* credential was extracted, the token verifies under the server's key (so a
\* token signed with an unknown key is never answered 200), and every claims_
\* parameter of the query is satisfied by the token's claims.
C1_OkOnlyIfAllChecksPass ==
    status = StatusOK =>
        /\ pc = "done"
        /\ MethodAllowed
        /\ jwtB64 # <<>>
        /\ Verifies(jwtB64)
        /\ SatisfiesEveryParameter(TokenClaims, req.query)

\* C1, its case: a request with a policy has been answered 200.
C1_Witness ==
    /\ pc = "done"
    /\ status = StatusOK
    /\ ClaimKeys(req.query) # {}

\* C2: for a verified token and a query with a claims_ parameter, the request
\* is accepted exactly when every claim name the policy names has, among all
\* the patterns registered under it, literal or regular expression, one that
\* matches the claim's string or an element of its array of strings.
C2_AndOverNamesOrOverAllPatterns ==
    (pc = "done" /\ MethodAllowed /\ Verifies(jwtB64) /\ ClaimKeys(req.query) # {}) =>
        (status = StatusOK <=> SatisfiesEveryClaimName(TokenClaims, req.query))

\* C3: a GET or HEAD request that carries a verified token and whose query has
\* no claims_ parameter is answered 200, whatever the claims of the token.
C3_NoClaimsParameterAccepts ==
    (pc = "done" /\ MethodAllowed /\ Verifies(jwtB64) /\ ClaimKeys(req.query) = {}) =>
        status = StatusOK

\* C3, its case: a request whose query carries only other parameters, with a
\* token whose claim is a number, has been answered.
C3_Witness ==
    /\ pc = "done"
    /\ MethodAllowed
    /\ jwtB64 = << "tokE" >>
    /\ req.query # <<>>
    /\ ClaimKeys(req.query) = {}
    /\ status = StatusOK

\* C4: for a verified token, a policy that names a claim that is absent or
\* neither a string nor an array of strings is answered 401.
C4_UnusableClaimIs401 ==
    (pc = "done" /\ MethodAllowed /\ Verifies(jwtB64)
        /\ NamesUnusableClaim(TokenClaims, req.query)) =>
        status = StatusUnauthorized

\* C5: on a 200 response, for every headers_<h>=<claimName> parameter whose
\* claim is a string or an array of strings, header <h> carries the base64
\* encoding of the string, or of the JSON serialization of the array; when the
\* claim is absent no header <h> is emitted.
C5_HeadersCarryBase64 ==
    (pc = "done" /\ status = StatusOK) =>
        \A key \in { k \in DOMAIN req.query : HasPrefix(k, headersPrefix) } :
            LET h == CanonicalMIMEHeaderKey(TrimPrefix(key, headersPrefix))
                claimName == req.query[key][1]
            IN  IF claimName \notin DOMAIN TokenClaims
                THEN h \notin DOMAIN respHeaders
                ELSE LET v == TokenClaims[claimName] IN
                     /\ v.tag = "string" =>
                            (h \in DOMAIN respHeaders /\ respHeaders[h] = << Base64(v.s) >>)
                     /\ (v.tag = "array" /\ StringsOf(TokenClaims, claimName) # {}) =>
                            (h \in DOMAIN respHeaders
                             /\ respHeaders[h] = << Base64(jsonMarshal(v)) >>)

\* C6: a request whose method is neither GET nor HEAD is answered 405 before
\* anything else is done: no credential is extracted, no token parsed, no
\* policy evaluated and no duration observed, whatever credential it carries.
C6_OtherMethodIs405 ==
    (req # NoRequest /\ ~MethodAllowed) =>
        /\ pc = "done"
        /\ status = StatusMethodNotAllowed
        /\ jwtB64 = <<>>
        /\ claims = <<>>
        /\ todo = {}
        /\ match = NoMatch
        /\ deferredObs = -1
        /\ observed = -1

\* C6, its case: a POST with a valid Bearer token has been answered.
C6_Witness ==
    /\ pc = "done"
    /\ req.method = "POST"
    /\ req.authorization = Bearer(<< "tokA" >>)
    /\ status = StatusMethodNotAllowed

\* C7, as amended: with a non-empty cookie parameter the credential is the
\* value of the cookie of that name, and without that cookie the request is
\* answered 401 whatever the Authorization header; with the cookie parameter
\* absent or empty the credential is taken from the Authorization header
\* alone, whatever cookies the request carries: a missing header is answered
\* 401, and otherwise the credential is the header value less a leading
\* "Bearer " in any letter case (the whole value when it has no such prefix),
\* and the request is answered 401 whenever that credential is not a token
\* that verifies.
C7_CredentialSource ==
    (pc = "done" /\ MethodAllowed) =>
        IF CookieName # <<>>
        THEN IF CookieName \in DOMAIN req.cookies
             THEN jwtB64 = req.cookies[CookieName]
             ELSE jwtB64 = <<>> /\ status = StatusUnauthorized
        ELSE IF req.authorization = <<>>
             THEN jwtB64 = <<>> /\ status = StatusUnauthorized
             ELSE /\ jwtB64 = (IF HasBearerScheme(req.authorization)
                               THEN SubSeq(req.authorization, 8, Len(req.authorization))
                               ELSE req.authorization)
                  /\ ~Verifies(jwtB64) => status = StatusUnauthorized

\* C7, its case: the cookie parameter is empty, the request carries a cookie
\* and an Authorization header without the Bearer scheme, the credential is
\* the whole header value, and the request has been answered 200.
C7_Witness ==
    /\ pc = "done"
    /\ MethodAllowed
    /\ cookieParam \in DOMAIN req.query
    /\ CookieName = <<>>
    /\ req.cookies # <<>>
    /\ ~HasBearerScheme(req.authorization)
    /\ jwtB64 = req.authorization
    /\ jwtB64 # <<>>
    /\ status = StatusOK

\* C7, as stated: without the named cookie the request is answered 401, and
\* with the cookie parameter absent or empty an Authorization header that is
\* missing or does not have the Bearer scheme is answered 401.
C7_MalformedHeaderIs401 ==
    (pc = "done" /\ MethodAllowed) =>
        IF CookieName # <<>>
        THEN CookieName \notin DOMAIN req.cookies => status = StatusUnauthorized
        ELSE ~HasBearerScheme(req.authorization) => status = StatusUnauthorized

\* C8: for a verified token, a policy that names a claim whose value is the
\* empty array is never accepted: the claim name is rejected whatever its
\* patterns, and the request is answered 401 unless another claim the policy
\* names panics first (C4), and then 500.
C8_EmptyArrayNeverSatisfies ==
    (MethodAllowed /\ Verifies(jwtB64) /\ NamesEmptyArray(TokenClaims, req.query)) =>
        /\ \A key \in ClaimKeys(req.query) :
               (ClaimNameOf(key) \in DOMAIN TokenClaims
                /\ TokenClaims[ClaimNameOf(key)] = Arr(<<>>)) =>
                   checkClaim(ClaimNameOf(key), req.query[key], TokenClaims).res = "false"
        /\ status # StatusOK
        /\ pc = "done" =>
              \/ status = StatusUnauthorized
              \/ NamesMixedArray(TokenClaims, req.query)

\* C8, its case: the policy holds a regular expression that matches the empty
\* string, the claim is the empty array, and the request has been answered 401.
C8_Witness ==
    /\ pc = "done"
    /\ Verifies(jwtB64)
    /\ claimsRegexpG \in DOMAIN req.query
    /\ TokenClaims[grp] = Arr(<<>>)
    /\ status = StatusUnauthorized

\* C9: the same request gets the same status every time it is handled,
\* whatever order the range loop visits the query keys in and whatever the
\* cache holds.
C9_SameRequestSameStatus ==
    (pc = "done" /\ prev # -1) => status = prev

\* C10: the duration observed into the histogram is the time that passed
\* between the entry of validateDeviceToken and its return.
C10_ObservedIsElapsed ==
    observed # -1 => observed = elapsed

====
